---- MODULE Spec2Model ----
(***************************************************************************)
(* Model of bimmer_connected/state.py: VehicleState holds the raw           *)
(* vehicleStatus document last fetched from the backend (_attributes) and   *)
(* exposes accessors over it, most of them wrapped by the                   *)
(* backend_parameter decorator.                                             *)
(*                                                                          *)
(* JSON values are tagged records: [t |-> "null"], [t |-> "number", n],     *)
(* [t |-> "string", s], [t |-> "object", m] (m a function from keys to      *)
(* JSON values) and [t |-> "array", a] (a a sequence).  Python's None and   *)
(* JSON's null are the same value, as they are after response.json().       *)
(*                                                                          *)
(* The outcome of evaluating a Python expression is a record: a normal      *)
(* return of a value, a normal return of None, or a raised exception.       *)
(***************************************************************************)
EXTENDS Integers, Sequences, FiniteSets, TLC

VARIABLES
    _attributes,   \* VehicleState._attributes: None or the vehicleStatus document
    response,      \* what account.send_request did on the last update_data
    requests,      \* number of send_request calls made by the last update_data
    op,            \* the operation executed last
    result,        \* its outcome as seen by the caller
    previous,      \* _attributes as it was when the last update_data was called
    refreshed,     \* some update_data has returned normally
    lastUpdate,    \* outcome kind of the most recent update_data
    prevUpdate     \* outcome kind of the update_data before that

vars == <<_attributes, response, requests, op, result, previous, refreshed, lastUpdate, prevUpdate>>

----------------------------------------------------------------------------
(* JSON values *)

JNull == [t |-> "null"]
JNum(n) == [t |-> "number", n |-> n]
JStr(s) == [t |-> "string", s |-> s]
JObj(m) == [t |-> "object", m |-> m]
JArr(a) == [t |-> "array", a |-> a]

\* the empty dict and the union of two dicts with disjoint keys
EmptyMap == [k \in {} |-> JNull]
Merge(m1, m2) == [k \in (DOMAIN m1) \cup (DOMAIN m2) |-> IF k \in DOMAIN m1 THEN m1[k] ELSE m2[k]]

\* all dicts that give every key of some subset of ks a value of vs
PartialMaps(ks, vs) == UNION {[d -> vs] : d \in SUBSET ks}

----------------------------------------------------------------------------
(* Outcomes of Python evaluation *)

Return(v) == [kind |-> "return", none |-> FALSE, value |-> v]
ReturnNone == [kind |-> "return", none |-> TRUE]
Raise(exc, msg) == [kind |-> "raise", exc |-> exc, msg |-> msg]

IsRaise(o) == o.kind = "raise"
IsNone(o) == o.kind = "return" /\ o.none
IsValue(o) == o.kind = "return" /\ ~o.none

\* ValueError('No data available!') of backend_parameter
NoDataError == Raise("ValueError", "No data available!")

\* container[key] on a JSON value
Subscript(container, key) ==
    IF container.t = "object"
    THEN IF key \in DOMAIN container.m
         THEN Return(container.m[key])
         ELSE Raise("KeyError", key)
    ELSE Raise("TypeError", "not subscriptable by a str key")

\* key in container, for a dict
Contains(container, key) == container.t = "object" /\ key \in DOMAIN container.m

\* obj.name on a Python object modelled as a record of its instance attributes
GetAttr(obj, name) ==
    IF name \in DOMAIN obj
    THEN Return(obj[name])
    ELSE Raise("AttributeError", name)

----------------------------------------------------------------------------
(* Module constants and enums *)

LIDS == <<"doorDriverFront", "doorPassengerFront", "doorDriverRear", "doorPassengerRear",
          "hood", "trunk">>

WINDOWS == <<"windowDriverFront", "windowPassengerFront", "windowDriverRear", "windowPassengerRear">>

LidState == {"CLOSED", "OPEN", "INTERMEDIATE"}

LockState == {"LOCKED", "SECURED", "SELECTIVELOCKED", "UNLOCKED"}

ParkingLightState == {"LEFT", "RIGHT", "OFF"}

ConditionBasedServiceStatus == {"OK", "OVERDUE", "PENDING"}

\* EnumClass(value): the member whose value equals the JSON value, else ValueError
Enum(members, cls, j) ==
    IF j.t = "string" /\ j.s \in members
    THEN Return(j.s)
    ELSE Raise("ValueError", "not a valid " \o cls)

----------------------------------------------------------------------------
(* Conversions.  TLC cannot take a string apart, so strptime, float and int *)
(* on text are tables over the literals the documents below use: a literal  *)
(* outside a table is one the conversion rejects.                           *)

\* float(x) / int(x) of text: the numeric literals and their values
NumericLiterals == ("2201" :> 2201) @@ ("202" :> 202) @@ ("19" :> 19)

\* datetime.strptime(s, "%Y-%m-%dT%H:%M:%S%z"): the literals of that format
DatetimeLiterals ==
    ("2018-02-17T12:15:36+0000" :>
        [year |-> 2018, month |-> 2, day |-> 17, hour |-> 12, minute |-> 15, second |-> 36,
         utcoffset |-> 0])

\* datetime.strptime(s, fmt) for the two formats of _parse_date; strptime
\* fills the missing day with 1
DateLiterals ==
    ("%Y-%m" :> (("2018-02" :> [year |-> 2018, month |-> 2, day |-> 1]) @@
                 ("2019-11" :> [year |-> 2019, month |-> 11, day |-> 1]))) @@
    ("%m.%Y" :> ("02.2018" :> [year |-> 2018, month |-> 2, day |-> 1]))

float(j) ==
    IF j.t = "number" THEN Return(j.n)
    ELSE IF j.t = "string"
         THEN IF j.s \in DOMAIN NumericLiterals
              THEN Return(NumericLiterals[j.s])
              ELSE Raise("ValueError", "could not convert string to float")
         ELSE Raise("TypeError", "float() argument must be a string or a number")

int(j) ==
    IF j.t = "number" THEN Return(j.n)
    ELSE IF j.t = "string"
         THEN IF j.s \in DOMAIN NumericLiterals
              THEN Return(NumericLiterals[j.s])
              ELSE Raise("ValueError", "invalid literal for int()")
         ELSE Raise("TypeError", "int() argument must be a string or a number")

_parse_datetime(j) ==
    IF j.t # "string" THEN Raise("TypeError", "strptime() argument 1 must be str")
    ELSE IF j.s \in DOMAIN DatetimeLiterals
         THEN Return(DatetimeLiterals[j.s])
         ELSE Raise("ValueError", "time data does not match format")

\* ConditionBasedServiceReport._parse_date: first format that parses, day set
\* to 1; None (after logging) when neither does
_parse_date(j) ==
    IF j.t # "string" THEN Raise("TypeError", "strptime() argument 1 must be str")
    ELSE IF j.s \in DOMAIN DateLiterals["%Y-%m"]
         THEN Return([DateLiterals["%Y-%m"][j.s] EXCEPT !.day = 1])
         ELSE IF j.s \in DOMAIN DateLiterals["%m.%Y"]
              THEN Return([DateLiterals["%m.%Y"][j.s] EXCEPT !.day = 1])
              ELSE ReturnNone

----------------------------------------------------------------------------
(* The decorator *)

\* the wrapper without its test for None
backend_parameter_unguarded(outcome) ==
    IF IsRaise(outcome) /\ outcome.exc = "KeyError" THEN ReturnNone ELSE outcome

\* the wrapper without its except clause
backend_parameter_uncaught(outcome) ==
    IF _attributes = JNull THEN NoDataError ELSE outcome

\* the wrapper with "except (KeyError, ValueError)"
backend_parameter_lenient(outcome) ==
    IF _attributes = JNull
    THEN NoDataError
    ELSE IF IsRaise(outcome) /\ outcome.exc \in {"KeyError", "ValueError"}
         THEN ReturnNone
         ELSE outcome

\* backend_parameter(func): outcome is what func(self) does when it is called
backend_parameter(outcome) ==
    IF _attributes = JNull
    THEN NoDataError
    ELSE IF IsRaise(outcome) /\ outcome.exc = "KeyError"
         THEN ReturnNone
         ELSE outcome

----------------------------------------------------------------------------
(* Scalar accessors of VehicleState *)

attributes ==
    backend_parameter(IF _attributes = JNull THEN ReturnNone ELSE Return(_attributes))

timestamp ==
    backend_parameter(
        LET v == Subscript(_attributes, "updateTime")
        IN  IF IsRaise(v) THEN v ELSE _parse_datetime(v.value))

\* tracking taken as enabled for every status that is not DRIVER_DISABLED
is_vehicle_tracking_enabled_lax ==
    backend_parameter(
        LET pos == Subscript(_attributes, "position")
        IN  IF IsRaise(pos) THEN pos
            ELSE LET status == Subscript(pos.value, "status")
                 IN  IF IsRaise(status) THEN status
                     ELSE Return(status.value # JStr("DRIVER_DISABLED")))

is_vehicle_tracking_enabled ==
    backend_parameter(
        LET pos == Subscript(_attributes, "position")
        IN  IF IsRaise(pos) THEN pos
            ELSE LET status == Subscript(pos.value, "status")
                 IN  IF IsRaise(status) THEN status
                     ELSE Return(status.value = JStr("OK")))

gps_position ==
    backend_parameter(
        LET pos == Subscript(_attributes, "position")
            enabled == is_vehicle_tracking_enabled
            lat == Subscript(pos.value, "lat")
            lon == Subscript(pos.value, "lon")
            flat == float(lat.value)
            flon == float(lon.value)
            status == Subscript(pos.value, "status")
        IN  IF IsRaise(pos) THEN pos
            ELSE IF IsRaise(enabled) THEN enabled
            ELSE IF IsValue(enabled) /\ enabled.value
                 THEN IF IsRaise(lat) THEN lat
                      ELSE IF IsRaise(flat) THEN flat
                      ELSE IF IsRaise(lon) THEN lon
                      ELSE IF IsRaise(flon) THEN flon
                      ELSE Return(<<flat.value, flon.value>>)
                 ELSE IF IsRaise(status) THEN status   \* argument of the warning
                      ELSE ReturnNone)

mileage ==
    backend_parameter(
        LET v == Subscript(_attributes, "mileage")
        IN  IF IsRaise(v) THEN v ELSE float(v.value))

remaining_range_fuel ==
    backend_parameter(
        LET v == Subscript(_attributes, "remainingRangeFuel")
        IN  IF IsRaise(v) THEN v ELSE float(v.value))

remaining_fuel ==
    backend_parameter(
        LET v == Subscript(_attributes, "remainingFuel")
        IN  IF IsRaise(v) THEN v ELSE float(v.value))

door_lock_state ==
    backend_parameter(
        LET v == Subscript(_attributes, "doorLockState")
        IN  IF IsRaise(v) THEN v ELSE Enum(LockState, "LockState", v.value))

last_update_reason ==
    backend_parameter(Subscript(_attributes, "updateReason"))

parking_lights ==
    backend_parameter(
        LET a == attributes
            v == Subscript(IF IsNone(a) THEN JNull ELSE a.value, "parkingLight")
        IN  IF IsRaise(a) THEN a
            ELSE IF IsRaise(v) THEN v
            ELSE Enum(ParkingLightState, "ParkingLightState", v.value))

are_parking_lights_on ==
    LET lights == parking_lights
    IN  IF IsRaise(lights) THEN lights
        ELSE IF IsNone(lights) THEN ReturnNone
        ELSE Return(lights.value # "OFF")

----------------------------------------------------------------------------
(* Lids and windows *)

\* Lid.__init__ (Window inherits it unchanged)
Lid(name, state) ==
    LET st == Enum(LidState, "LidState", state)
    IN  IF IsRaise(st) THEN st ELSE Return([name |-> name, state |-> st.value])

\* is_closed as "not open": an INTERMEDIATE lid counts as closed
is_closed_not_open(lid) == lid.state # "OPEN"

\* Lid.is_closed
is_closed(lid) == lid.state = "CLOSED"

\* the loop of lids / windows from the i-th name on, acc the list built so far
RECURSIVE _lid_loop(_, _, _)
_lid_loop(names, i, acc) ==
    IF i > Len(names) THEN Return(acc)
    ELSE IF Contains(_attributes, names[i])
         THEN LET v == Subscript(_attributes, names[i])
                  lid == Lid(names[i], v.value)
              IN  IF IsRaise(v) THEN v
                  ELSE IF IsRaise(lid) THEN lid
                  ELSE _lid_loop(names, i + 1, Append(acc, lid.value))
         ELSE _lid_loop(names, i + 1, acc)

lids == backend_parameter(_lid_loop(LIDS, 1, <<>>))

\* [lid for lid in xs if not lid.is_closed], xs the outcome of self.lids / self.windows
_not_closed(xs) ==
    IF IsRaise(xs) THEN xs
    ELSE IF IsNone(xs) THEN Raise("TypeError", "'NoneType' object is not iterable")
    ELSE Return(SelectSeq(xs.value, LAMBDA lid : ~is_closed(lid)))

open_lids == _not_closed(lids)

all_lids_closed ==
    LET open == open_lids
    IN  IF IsRaise(open) THEN open ELSE Return(Len(open.value) = 0)

windows == backend_parameter(_lid_loop(WINDOWS, 1, <<>>))

open_windows == _not_closed(windows)

all_windows_closed ==
    LET open == open_windows
    IN  IF IsRaise(open) THEN open ELSE Return(Len(open.value) = 0)

----------------------------------------------------------------------------
(* Condition based services *)

\* an attribute that is None or holds a value
PyNone == [none |-> TRUE]
Some(v) == [none |-> FALSE, value |-> v]
Optional(o) == IF IsNone(o) THEN PyNone ELSE Some(o.value)

\* ConditionBasedServiceReport.__init__: the instance attributes it sets, in
\* the order the statements run
ConditionBasedServiceReport(data) ==
    LET due      == Subscript(data, "cbsDueDate")
        due_date == _parse_date(due.value)
        st       == Subscript(data, "cbsState")
        state    == Enum(ConditionBasedServiceStatus, "ConditionBasedServiceStatus", st.value)
        type     == Subscript(data, "cbsType")
        rem      == Subscript(data, "cbsRemainingMileage")
        dist     == IF Contains(data, "cbsRemainingMileage") THEN int(rem.value) ELSE ReturnNone
        desc     == Subscript(data, "cbsDescription")
    IN  IF IsRaise(due) THEN due
        ELSE IF IsRaise(due_date) THEN due_date
        ELSE IF IsRaise(st) THEN st
        ELSE IF IsRaise(state) THEN state
        ELSE IF IsRaise(type) THEN type
        ELSE IF IsRaise(dist) THEN dist
        ELSE IF IsRaise(desc) THEN desc
        ELSE Return([due_date     |-> Optional(due_date),
                     state        |-> state.value,
                     service_type |-> type.value,
                     due_distance |-> Optional(dist),
                     description  |-> desc.value])

\* [ConditionBasedServiceReport(s) for s in data] from the i-th element on
RECURSIVE _cbs_loop(_, _, _)
_cbs_loop(data, i, acc) ==
    IF i > Len(data) THEN Return(acc)
    ELSE LET report == ConditionBasedServiceReport(data[i])
         IN  IF IsRaise(report) THEN report
             ELSE _cbs_loop(data, i + 1, Append(acc, report.value))

condition_based_services ==
    backend_parameter(
        LET v == Subscript(_attributes, "cbsData")
        IN  IF IsRaise(v) THEN v
            ELSE IF v.value.t = "array" THEN _cbs_loop(v.value.a, 1, <<>>)
            ELSE Raise("TypeError", "cbsData is not a list of dicts"))

\* the for loop of are_all_cbs_ok from the i-th report on: it reads the
\* attribute "status" of each report
RECURSIVE _all_ok_loop(_, _)
_all_ok_loop(reports, i) ==
    IF i > Len(reports) THEN Return(TRUE)
    ELSE LET status == GetAttr(reports[i], "status")
         IN  IF IsRaise(status) THEN status
             ELSE IF status.value # "OK" THEN Return(FALSE)
             ELSE _all_ok_loop(reports, i + 1)

are_all_cbs_ok ==
    LET cbs == condition_based_services
    IN  IF IsRaise(cbs) THEN cbs
        ELSE IF IsNone(cbs) THEN Raise("TypeError", "'NoneType' object is not iterable")
        ELSE _all_ok_loop(cbs.value, 1)

----------------------------------------------------------------------------
(* Documents the backend may deliver *)

\* longest cbsData list the documents carry
MaxCbs == 2

\* the dicts that have key k with a value of vs, or lack it
Opt(k, vs) == {EmptyMap} \cup {k :> v : v \in vs}

SetOf(seq) == {seq[i] : i \in 1..Len(seq)}

\* the scenario of the specification's section 8, completed with the other keys
FullStatus ==
    ("updateTime" :> JStr("2018-02-17T12:15:36+0000")) @@
    ("mileage" :> JNum(2201)) @@
    ("remainingFuel" :> JNum(19)) @@
    ("remainingRangeFuel" :> JNum(202)) @@
    ("position" :> JObj(("lat" :> JNum(-34)) @@ ("lon" :> JNum(25)) @@ ("status" :> JStr("OK")))) @@
    ("doorLockState" :> JStr("SECURED")) @@
    ("updateReason" :> JStr("VEHICLE_SHUTDOWN")) @@
    ("parkingLight" :> JStr("OFF")) @@
    ("cbsData" :> JArr(<<JObj(("cbsDueDate" :> JStr("2019-11")) @@ ("cbsState" :> JStr("OK")) @@
                              ("cbsType" :> JStr("OIL")) @@ ("cbsRemainingMileage" :> JNum(15000)) @@
                              ("cbsDescription" :> JStr("Next oil change")))>>)) @@
    [k \in SetOf(LIDS) \cup SetOf(WINDOWS) |-> JStr("CLOSED")]

\* groups of keys a document may lack together
KeyGroups ==
    {{"updateTime", "mileage", "remainingFuel", "remainingRangeFuel"},
     {"position", "doorLockState", "updateReason", "parkingLight"},
     {"cbsData"},
     SetOf(LIDS) \cup SetOf(WINDOWS)}

Restrict(m, ks) == [k \in (DOMAIN m) \cap ks |-> m[k]]

\* the documents update_data is run on: FullStatus without some groups of keys
SampleStatuses == {JObj(Restrict(FullStatus, UNION gs)) : gs \in SUBSET KeyGroups}

LidLiterals == {JStr("CLOSED"), JStr("OPEN"), JStr("INTERMEDIATE")}

\* every combination of the six lids absent / CLOSED / OPEN / INTERMEDIATE, and
\* one lid with a literal outside LidState beside the others absent, closed or open
LidDocs ==
    PartialMaps(SetOf(LIDS), LidLiterals) \cup
    {Merge(k :> JStr("AJAR"), m) :
        k \in SetOf(LIDS), m \in PartialMaps(SetOf(LIDS), {JStr("CLOSED"), JStr("OPEN")})}

WindowDocs == PartialMaps(SetOf(WINDOWS), LidLiterals \cup {JStr("AJAR")})

PositionValues ==
    {JObj(Merge(Merge(a, b), c)) :
        a \in Opt("lat", {JNum(-34), JStr("north")}),
        b \in Opt("lon", {JNum(25)}),
        c \in Opt("status", {JStr("OK"), JStr("OK_DISABLED"), JStr("DRIVER_DISABLED")})}

PositionDocs ==
    {Merge(a, b) : a \in Opt("position", PositionValues), b \in Opt("mileage", {JNum(2201)})}

ScalarDocs ==
    {Merge(Merge(Merge(a, b), Merge(c, d)), e) :
        a \in Opt("updateTime", {JStr("2018-02-17T12:15:36+0000"), JStr("yesterday")}),
        b \in Opt("mileage", {JNum(2201), JStr("2201"), JStr("unknown")}),
        c \in Opt("doorLockState", {JStr(x) : x \in LockState \cup {"JAMMED"}}),
        d \in Opt("parkingLight", {JStr(x) : x \in ParkingLightState \cup {"BOTH"}}),
        e \in {EmptyMap, Restrict(FullStatus, {"remainingFuel", "remainingRangeFuel", "updateReason"})}}

\* entries that have every required key and a state of ConditionBasedServiceStatus
WellFormedCbs ==
    {JObj(Merge(("cbsState" :> JStr(st)) @@ ("cbsType" :> JStr("OIL")) @@
                ("cbsDescription" :> JStr("Next oil change")), d)) :
        st \in ConditionBasedServiceStatus,
        d \in {("cbsDueDate" :> JStr("2019-11")) @@ ("cbsRemainingMileage" :> JNum(15000)),
               "cbsDueDate" :> JStr("soon")}} \cup
    {JObj(("cbsDueDate" :> JStr("02.2018")) @@ ("cbsState" :> JStr("PENDING")) @@
          ("cbsType" :> JStr("BRAKE_FLUID")) @@ ("cbsDescription" :> JStr("Next change of brake fluid")))}

CbsTemplate ==
    ("cbsDueDate" :> JStr("2018-02")) @@ ("cbsState" :> JStr("OK")) @@
    ("cbsType" :> JStr("OIL")) @@ ("cbsDescription" :> JStr("Next oil change"))

\* entries with a state outside ConditionBasedServiceStatus, or lacking a key
MalformedCbs ==
    {JObj([CbsTemplate EXCEPT !["cbsState"] = JStr("UNKNOWN")])} \cup
    {JObj(Restrict(CbsTemplate, DOMAIN CbsTemplate \ {k})) : k \in DOMAIN CbsTemplate} \cup
    {JObj(Restrict([CbsTemplate EXCEPT !["cbsState"] = JStr("UNKNOWN")], DOMAIN CbsTemplate \ {k})) :
        k \in {"cbsDueDate", "cbsType"}}

CbsEntries == WellFormedCbs \cup MalformedCbs

CbsDocs ==
    Opt("cbsData", {JArr(a) : a \in UNION {[1..n -> CbsEntries] : n \in 0..MaxCbs}})

\* the documents the accessors are read on
Documents ==
    {JObj(m) : m \in LidDocs \cup WindowDocs \cup PositionDocs \cup ScalarDocs \cup CbsDocs}
    \cup SampleStatuses

\* errors account.send_request raises
TransportErrors == {"IOError", "ConnectionError"}

\* what send_request does: raise, or return a response whose json() is a dict
\* with or without the key vehicleStatus
Replies ==
    {[ok |-> FALSE, error |-> e] : e \in TransportErrors} \cup
    {[ok |-> TRUE, json |-> JObj(EmptyMap)]} \cup
    {[ok |-> TRUE, json |-> JObj("vehicleStatus" :> v)] : v \in SampleStatuses \cup {JNull}}

NoReply == [ok |-> FALSE, error |-> "none"]

----------------------------------------------------------------------------
(* VehicleState: constructor, update_data and the reads *)

Init ==
    /\ _attributes = JNull
    /\ response = NoReply
    /\ requests = 0
    /\ op = "__init__"
    /\ result = ReturnNone
    /\ previous = JNull
    /\ refreshed = FALSE
    /\ lastUpdate = "none"
    /\ prevUpdate = "none"

\* number of times update_data calls send_request
SendRequests(reply) == 1

\* how update_data ends when send_request did reply
UpdateOutcome(reply) ==
    IF ~reply.ok THEN Raise(reply.error, "send_request")
    ELSE LET status == Subscript(reply.json, "vehicleStatus")
         IN  IF IsRaise(status) THEN status ELSE ReturnNone

\* update_data clearing the old document before it asks for the new one
UpdateAttributes_cleared(reply) ==
    IF IsRaise(UpdateOutcome(reply)) THEN JNull
    ELSE Subscript(reply.json, "vehicleStatus").value

\* update_data as dict.update: the new document merged over the old one
UpdateAttributes_merged(reply) ==
    IF IsRaise(UpdateOutcome(reply)) THEN _attributes
    ELSE LET new == Subscript(reply.json, "vehicleStatus").value
         IN  IF new.t = "object" /\ _attributes.t = "object"
             THEN JObj(Merge(new.m, _attributes.m))
             ELSE new

\* self._attributes when update_data ends
UpdateAttributes(reply) ==
    IF IsRaise(UpdateOutcome(reply)) THEN _attributes
    ELSE Subscript(reply.json, "vehicleStatus").value

update_data ==
    \E reply \in Replies :
        /\ response' = reply
        /\ requests' = SendRequests(reply)
        /\ _attributes' = UpdateAttributes(reply)
        /\ result' = UpdateOutcome(reply)
        /\ op' = "update_data"
        /\ previous' = _attributes
        /\ refreshed' = (refreshed \/ ~IsRaise(UpdateOutcome(reply)))
        /\ lastUpdate' = (IF IsRaise(UpdateOutcome(reply)) THEN "raised" ELSE "returned")
        /\ prevUpdate' = lastUpdate

\* the caller reads property name; outcome is what the property does
Read(name, outcome) ==
    /\ op' = name
    /\ result' = outcome
    /\ UNCHANGED <<_attributes, response, requests, previous, refreshed, lastUpdate, prevUpdate>>

ReadAttributes == Read("attributes", attributes)
ReadTimestamp == Read("timestamp", timestamp)
ReadGpsPosition == Read("gps_position", gps_position)
ReadIsVehicleTrackingEnabled == Read("is_vehicle_tracking_enabled", is_vehicle_tracking_enabled)
ReadMileage == Read("mileage", mileage)
ReadRemainingRangeFuel == Read("remaining_range_fuel", remaining_range_fuel)
ReadRemainingFuel == Read("remaining_fuel", remaining_fuel)
ReadLids == Read("lids", lids)
ReadOpenLids == Read("open_lids", open_lids)
ReadAllLidsClosed == Read("all_lids_closed", all_lids_closed)
ReadWindows == Read("windows", windows)
ReadOpenWindows == Read("open_windows", open_windows)
ReadAllWindowsClosed == Read("all_windows_closed", all_windows_closed)
ReadDoorLockState == Read("door_lock_state", door_lock_state)
ReadLastUpdateReason == Read("last_update_reason", last_update_reason)
ReadConditionBasedServices == Read("condition_based_services", condition_based_services)
ReadAreAllCbsOk == Read("are_all_cbs_ok", are_all_cbs_ok)
ReadParkingLights == Read("parking_lights", parking_lights)
ReadAreParkingLightsOn == Read("are_parking_lights_on", are_parking_lights_on)

ReadAny ==
    \/ ReadAttributes
    \/ ReadTimestamp
    \/ ReadGpsPosition
    \/ ReadIsVehicleTrackingEnabled
    \/ ReadMileage
    \/ ReadRemainingRangeFuel
    \/ ReadRemainingFuel
    \/ ReadLids
    \/ ReadOpenLids
    \/ ReadAllLidsClosed
    \/ ReadWindows
    \/ ReadOpenWindows
    \/ ReadAllWindowsClosed
    \/ ReadDoorLockState
    \/ ReadLastUpdateReason
    \/ ReadConditionBasedServices
    \/ ReadAreAllCbsOk
    \/ ReadParkingLights
    \/ ReadAreParkingLightsOn

Next == update_data \/ ReadAny

Spec == Init /\ [][Next]_vars

\* the state in which update_data has just returned with a document of Documents
InitRead ==
    /\ _attributes \in Documents
    /\ response = [ok |-> TRUE, json |-> JObj("vehicleStatus" :> _attributes)]
    /\ requests = 1
    /\ op = "update_data"
    /\ result = ReturnNone
    /\ previous = JNull
    /\ refreshed = TRUE
    /\ lastUpdate = "returned"
    /\ prevUpdate = "none"

\* the reads of one fetched document
SpecRead == InitRead /\ [][ReadAny]_vars

----------------------------------------------------------------------------
(* Properties *)

\* the properties wrapped by backend_parameter
GuardedAccessors ==
    {"attributes", "timestamp", "gps_position", "is_vehicle_tracking_enabled", "mileage",
     "remaining_range_fuel", "remaining_fuel", "lids", "windows", "door_lock_state",
     "last_update_reason", "condition_based_services", "parking_lights"}

\* the key of _attributes each of these properties reads first
KeyRead ==
    ("timestamp" :> "updateTime") @@ ("gps_position" :> "position") @@
    ("is_vehicle_tracking_enabled" :> "position") @@ ("mileage" :> "mileage") @@
    ("remaining_range_fuel" :> "remainingRangeFuel") @@ ("remaining_fuel" :> "remainingFuel") @@
    ("door_lock_state" :> "doorLockState") @@ ("last_update_reason" :> "updateReason") @@
    ("condition_based_services" :> "cbsData") @@ ("parking_lights" :> "parkingLight")

HasData == _attributes.t = "object"

IsValueError(o) == IsRaise(o) /\ o.exc = "ValueError" /\ o # NoDataError

\* C1: as long as no update_data has returned normally, _attributes is the
\* constructor's None and a read of any guarded property ends in the no-data
\* ValueError: it returns neither a value nor None.
C1_NoDataBeforeRefresh ==
    ~refreshed =>
        /\ _attributes = JNull
        /\ op \in GuardedAccessors => result = NoDataError

\* a guarded property was read after update_data had failed and never succeeded
C1_Witness ==
    /\ ~refreshed
    /\ lastUpdate = "raised"
    /\ op = "parking_lights"
    /\ result = NoDataError

C3_ReplacedWholesale ==
    [][(op' = "update_data" /\ ~IsRaise(result')) =>
          /\ _attributes' = response'.json.m["vehicleStatus"]
          /\ (_attributes.t = "object" /\ _attributes'.t = "object") =>
                \A k \in DOMAIN _attributes.m :
                    k \notin DOMAIN response'.json.m["vehicleStatus"].m => ~Contains(_attributes', k)]_vars

\* a second refresh has replaced a document that had mileage by one without it
C3_Witness ==
    /\ op = "update_data"
    /\ ~IsRaise(result)
    /\ Contains(previous, "mileage")
    /\ HasData
    /\ Contains(_attributes, "cbsData")
    /\ ~Contains(_attributes, "mileage")

C5_OneWay ==
    refreshed =>
        /\ _attributes # JNull
        /\ op \in GuardedAccessors => result # NoDataError

\* C6: on an empty dict, mileage raises the no-data ValueError, as it does on None.
C6_EmptyDictRaises ==
    (_attributes = JObj(EmptyMap) /\ op = "mileage") => result = NoDataError

\* cbsData is a list of entries that have every required key, a state of
\* ConditionBasedServiceStatus and (if any) a numeric remaining mileage
WellFormedCbsData ==
    /\ HasData
    /\ Contains(_attributes, "cbsData")
    /\ _attributes.m["cbsData"].t = "array"
    /\ \A i \in 1..Len(_attributes.m["cbsData"].a) :
          LET e == _attributes.m["cbsData"].a[i]
          IN  /\ e.t = "object"
              /\ {"cbsDueDate", "cbsState", "cbsType", "cbsDescription"} \subseteq DOMAIN e.m
              /\ e.m["cbsDueDate"].t = "string"
              /\ e.m["cbsState"] \in {JStr(x) : x \in ConditionBasedServiceStatus}
              /\ "cbsRemainingMileage" \in DOMAIN e.m => e.m["cbsRemainingMileage"].t = "number"

\* C7: on a well-formed cbsData, are_all_cbs_ok returns whether every entry's
\* state is OK, and does not raise.
C7_AllCbsOk ==
    (WellFormedCbsData /\ op = "are_all_cbs_ok") =>
        result = Return(\A i \in 1..Len(_attributes.m["cbsData"].a) :
                            _attributes.m["cbsData"].a[i].m["cbsState"] = JStr("OK"))

\* the names of a list that are keys of _attributes, and whether all of them
\* carry a literal of LidState
Present(names) == {k \in SetOf(names) : Contains(_attributes, k)}
ValidLids(names) == \A k \in Present(names) : _attributes.m[k] \in {JStr(x) : x \in LidState}

\* the Lid objects a list holds, and whether it holds none twice
LidSet(list) == {list[i] : i \in 1..Len(list)}
NoDuplicates(list) == Cardinality(LidSet(list)) = Len(list)

\* what lids / open_lids / all_lids_closed (or the window properties) must be
\* over the names of a list, read off _attributes directly
LidViewOk(names, all, open, closed) ==
    ValidLids(names) =>
        /\ op = all =>
              /\ IsValue(result) /\ NoDuplicates(result.value)
              /\ LidSet(result.value) =
                    {[name |-> k, state |-> _attributes.m[k].s] : k \in Present(names)}
        /\ op = open =>
              /\ IsValue(result) /\ NoDuplicates(result.value)
              /\ LidSet(result.value) =
                    {[name |-> k, state |-> _attributes.m[k].s] :
                        k \in {n \in Present(names) : _attributes.m[n] # JStr("CLOSED")}}
        /\ op = closed =>
              /\ result = Return(\A k \in Present(names) : _attributes.m[k] = JStr("CLOSED"))

\* C8: for every combination of the lid keys absent or CLOSED / OPEN /
\* INTERMEDIATE, lids holds one Lid per key present, open_lids exactly those
\* not CLOSED, and all_lids_closed is true iff open_lids is empty; the same
\* for the window keys.
C8_LidViews ==
    HasData =>
        /\ LidViewOk(LIDS, "lids", "open_lids", "all_lids_closed")
        /\ LidViewOk(WINDOWS, "windows", "open_windows", "all_windows_closed")
        /\ ValidLids(LIDS) =>
              (all_lids_closed = Return(TRUE) <=> open_lids = Return(<<>>))
        /\ ValidLids(WINDOWS) =>
              (all_windows_closed = Return(TRUE) <=> open_windows = Return(<<>>))

\* open_lids read with one lid absent, one closed, one open and one intermediate
C8_Witness ==
    /\ HasData
    /\ ~Contains(_attributes, "hood")
    /\ Contains(_attributes, "trunk") /\ _attributes.m["trunk"] = JStr("CLOSED")
    /\ Contains(_attributes, "doorDriverFront") /\ _attributes.m["doorDriverFront"] = JStr("OPEN")
    /\ Contains(_attributes, "doorDriverRear") /\ _attributes.m["doorDriverRear"] = JStr("INTERMEDIATE")
    /\ ValidLids(LIDS)
    /\ op = "open_lids"
    /\ IsValue(result)
    /\ [name |-> "doorDriverRear", state |-> "INTERMEDIATE"] \in LidSet(result.value)

\* position is a dict with numeric lat and lon and a status
WellFormedPosition ==
    /\ HasData
    /\ Contains(_attributes, "position")
    /\ _attributes.m["position"].t = "object"
    /\ DOMAIN _attributes.m["position"].m = {"lat", "lon", "status"}
    /\ _attributes.m["position"].m["lat"].t = "number"
    /\ _attributes.m["position"].m["lon"].t = "number"

UnknownLid(names) == \E k \in Present(names) : _attributes.m[k] \notin {JStr(x) : x \in LidState}

\* cbsData is a list of entries that have every required key, one of them with
\* a state outside ConditionBasedServiceStatus
UnknownCbsState ==
    /\ Contains(_attributes, "cbsData")
    /\ _attributes.m["cbsData"].t = "array"
    /\ \A i \in 1..Len(_attributes.m["cbsData"].a) :
          {"cbsDueDate", "cbsState", "cbsType", "cbsDescription"}
              \subseteq DOMAIN _attributes.m["cbsData"].a[i].m
    /\ \E i \in 1..Len(_attributes.m["cbsData"].a) :
          _attributes.m["cbsData"].a[i].m["cbsState"] \notin {JStr(x) : x \in ConditionBasedServiceStatus}

====
